---- MODULE Spec2Model ----
(***************************************************************************)
(* Model of migolo/orderedmap: OrderedMap[T] (src/orderedmap.go), an       *)
(* insertion-ordered map with its own JSON encoder (MarshalJSON) and       *)
(* decoder (UnmarshalJSON).                                                *)
(*                                                                         *)
(* The value type is T = interface{}, as in every test of the repository   *)
(* (New[interface{}]()): a value is a JSON number, a string, a sequence,   *)
(* a nested *OrderedMap, or, after a decode, the map[string]interface{}    *)
(* that encoding/json builds for a JSON object.                            *)
(*                                                                         *)
(* JSON text is a sequence of lexical atoms: the punctuation "{" "}" "["   *)
(* "]" ":" ",", the line break "\n" that json.Encoder.Encode writes after  *)
(* every value, string literals in their quoted form and number literals.  *)
(***************************************************************************)
EXTENDS Integers, Sequences, FiniteSets, TLC

VARIABLES keys, values, escapeHTML, last, input, res

vars == <<keys, values, escapeHTML, last, input, res>>

(***************************************************************************)
(* Bounds of the model.                                                    *)
(***************************************************************************)
\* Number of distinct key strings the callers use.
MaxKeys == 3
\* Longest top-level member list of a decoded document.
MaxMembers == 4
\* Largest container handed to Sort in SpecSort.
MaxSortKeys == 7

KeyUniverse == <<"a", "b", "c", "d", "e", "f", "g", "h", "i">>

KeySet == {KeyUniverse[i] : i \in 1..MaxKeys}

\* Position of a key in the alphabet: Go's string order on these keys.
KeyIndex(k) == CHOOSE i \in 1..Len(KeyUniverse) : KeyUniverse[i] = k

StringLess(a, b) == KeyIndex(a) < KeyIndex(b)

(***************************************************************************)
(* Values of type interface{}.                                             *)
(***************************************************************************)
Num(n) == [t |-> "num", n |-> n]

Str(s) == [t |-> "str", s |-> s]

Arr(items) == [t |-> "arr", items |-> items]

\* map[string]interface{}: what encoding/json decodes a JSON object into.
GoMap(m) == [t |-> "map", m |-> m]

\* The empty function: an empty Go map.
EmptyMap == [k \in {} |-> 0]

\* A *OrderedMap held as a value: the three fields of the struct.
OM(ks, vs, esc) == [t |-> "om", keys |-> ks, values |-> vs, escapeHTML |-> esc]

\* The string contents the model uses besides the keys.
StringSet == {KeyUniverse[i] : i \in 1..Len(KeyUniverse)} \cup {"<", "x"}

NumberSet == {1, 2}

\* A nil interface{}: the zero value a Go map yields for a missing key.
Null == [t |-> "null"]

\* A channel held as interface{}: a value of a type encoding/json has no
\* encoding for.
Chan == [t |-> "chan"]

(***************************************************************************)
(* The encoder: json.Encoder with SetEscapeHTML(o.escapeHTML), as          *)
(* MarshalJSON drives it.                                                  *)
(***************************************************************************)
Quote(s) == "\"" \o s \o "\""

\* The JSON string literal of s. With escapeHTML the characters < > & are
\* written as \u003c, \u003e, \u0026.
JSONString(s, escape) ==
    IF s = "<" THEN (IF escape THEN "\"\\u003c\"" ELSE "\"<\"") ELSE Quote(s)

NumberText(n) == ToString(n)

\* The atom with < > & escaped: what encoding/json's compact does to each
\* byte of a Marshaler's output when the encoder escapes HTML. An atom that
\* is already escaped holds none of the three characters and stays.
EscapeAtom(a) == IF a = "\"<\"" THEN "\"\\u003c\"" ELSE a

\* encoding/json's compact: drops the insignificant white space and, with
\* escape, escapes < > &. It never un-escapes.
Compact(text, escape) ==
    LET dense == SelectSeq(text, LAMBDA a : a # "\n")
    IN  [i \in 1..Len(dense) |-> IF escape THEN EscapeAtom(dense[i]) ELSE dense[i]]

\* The keys of a Go map in the order encoding/json writes them: sorted.
RECURSIVE SortedKeys(_)
SortedKeys(S) ==
    IF S = {} THEN <<>>
    ELSE LET k == CHOOSE x \in S : \A y \in S : ~StringLess(y, x)
         IN  <<k>> \o SortedKeys(S \ {k})

RECURSIVE EncodeValue(_, _), EncodeItems(_, _, _), EncodeMapMembers(_, _, _),
          MarshalFrom(_, _, _)

\* o.values[k] in Go: the zero value when k is no key of the map.
ValueAt(vs, k) == IF k \in DOMAIN vs THEN vs[k] ELSE Null

\* A loop that returns the buffer it has filled so far with the error.
RECURSIVE MarshalFromPartial(_, _, _)
MarshalFromPartial(o, i, buf) ==
    IF i > Len(o.keys) THEN [err |-> FALSE, out |-> buf \o <<"}">>]
    ELSE LET k == o.keys[i]
             sep == IF i > 1 THEN <<",">> ELSE <<>>
             v == EncodeValue(ValueAt(o.values, k), o.escapeHTML)
         IN  IF v.err THEN [err |-> TRUE, out |-> buf]
             ELSE MarshalFromPartial(o, i + 1,
                      buf \o sep \o <<JSONString(k, o.escapeHTML), "\n", ":">>
                          \o v.out \o <<"\n">>)

\* A loop that writes the key without the line break of encoder.Encode.
RECURSIVE MarshalFromNoKeyBreak(_, _, _)
MarshalFromNoKeyBreak(o, i, buf) ==
    IF i > Len(o.keys) THEN [err |-> FALSE, out |-> buf \o <<"}">>]
    ELSE LET k == o.keys[i]
             sep == IF i > 1 THEN <<",">> ELSE <<>>
             v == EncodeValue(ValueAt(o.values, k), o.escapeHTML)
         IN  IF v.err THEN [err |-> TRUE, out |-> <<>>]
             ELSE MarshalFromNoKeyBreak(o, i + 1,
                      buf \o sep \o <<JSONString(k, o.escapeHTML), ":">>
                          \o v.out \o <<"\n">>)

\* The loop of MarshalJSON from the i-th key on; buf is the buffer so far.
\* An error of the encoder returns nil bytes with the error.
MarshalFrom(o, i, buf) ==
    IF i > Len(o.keys) THEN [err |-> FALSE, out |-> buf \o <<"}">>]
    ELSE LET k == o.keys[i]
             sep == IF i > 1 THEN <<",">> ELSE <<>>
             v == EncodeValue(ValueAt(o.values, k), o.escapeHTML)
         IN  IF v.err THEN [err |-> TRUE, out |-> <<>>]
             ELSE MarshalFrom(o, i + 1,
                      buf \o sep \o <<JSONString(k, o.escapeHTML), "\n", ":">>
                          \o v.out \o <<"\n">>)

\* An encoder that walks the keys of the map, sorted, as encoding/json does
\* for a plain map.
MarshalJSONSorted(o) ==
    MarshalFrom([o EXCEPT !.keys = SortedKeys(DOMAIN o.values)], 1, <<"{">>)

\* An encoder that ends the object, too, with encoder.Encode's line break.
MarshalJSONWithBreak(o) ==
    LET r == MarshalFrom(o, 1, <<"{">>)
    IN  IF r.err THEN r ELSE [err |-> FALSE, out |-> r.out \o <<"\n">>]

\* func (o OrderedMap[T]) MarshalJSON() ([]byte, error)
MarshalJSON(o) == MarshalFrom(o, 1, <<"{">>)

\* The elements of a slice from the i-th on, separated by commas.
EncodeItems(items, i, escape) ==
    IF i > Len(items) THEN [err |-> FALSE, out |-> <<>>]
    ELSE LET v == EncodeValue(items[i], escape)
             rest == EncodeItems(items, i + 1, escape)
         IN  IF v.err \/ rest.err THEN [err |-> TRUE, out |-> <<>>]
             ELSE [err |-> FALSE,
                   out |-> (IF i > 1 THEN <<",">> ELSE <<>>) \o v.out \o rest.out]

\* The members of a Go map, in sorted key order, from the i-th on.
EncodeMapMembers(m, i, escape) ==
    LET ks == SortedKeys(DOMAIN m)
    IN  IF i > Len(ks) THEN [err |-> FALSE, out |-> <<>>]
        ELSE LET v == EncodeValue(m[ks[i]], escape)
                 rest == EncodeMapMembers(m, i + 1, escape)
             IN  IF v.err \/ rest.err THEN [err |-> TRUE, out |-> <<>>]
                 ELSE [err |-> FALSE,
                       out |-> (IF i > 1 THEN <<",">> ELSE <<>>)
                               \o <<JSONString(ks[i], escape), ":">> \o v.out \o rest.out]

\* What encoder.Encode writes for a value, without the final line break. A
\* nested *OrderedMap is a json.Marshaler: its own MarshalJSON runs, with its
\* own escapeHTML field, and the outer encoder compacts the bytes it returns.
\* Any other kind of value (a channel, a function) is an encode error.
EncodeValue(v, escape) ==
    CASE v.t = "null" -> [err |-> FALSE, out |-> <<"null">>]
      [] v.t = "num" -> [err |-> FALSE, out |-> <<NumberText(v.n)>>]
      [] v.t = "str" -> [err |-> FALSE, out |-> <<JSONString(v.s, escape)>>]
      [] v.t = "arr" ->
            LET r == EncodeItems(v.items, 1, escape)
            IN  IF r.err THEN r ELSE [err |-> FALSE, out |-> <<"[">> \o r.out \o <<"]">>]
      [] v.t = "map" ->
            LET r == EncodeMapMembers(v.m, 1, escape)
            IN  IF r.err THEN r ELSE [err |-> FALSE, out |-> <<"{">> \o r.out \o <<"}">>]
      [] v.t = "om" ->
            LET r == MarshalJSON(v)
            IN  IF r.err THEN r ELSE [err |-> FALSE, out |-> Compact(r.out, escape)]
      [] OTHER -> [err |-> TRUE, out |-> <<>>]

(***************************************************************************)
(* The container: New, Get, Set, Delete, Keys, SortKeys, Sort.             *)
(***************************************************************************)
\* The receiver as one value: the three fields of the struct.
Self == OM(keys, values, escapeHTML)

\* What an operation with no result leaves in res.
NoResult == [err |-> FALSE]

Op(name, key, arg) == [op |-> name, key |-> key, arg |-> arg]

\* func (o *OrderedMap[T]) Get(key string) (T, bool)
Get(key) == [value |-> ValueAt(values, key), found |-> key \in DOMAIN values]

\* func (o *OrderedMap[T]) Keys() []string
Keys == keys

\* Set without the existence check: the key is appended every time.
SetKeysAlwaysAppend(ks, vs, key) == Append(ks, key)

\* Set that moves a key it already holds to the end.
SetKeysMoveToEnd(ks, vs, key) == Append(SelectSeq(ks, LAMBDA k : k # key), key)

\* o.keys after Set: the key is appended when the map does not hold it.
SetKeys(ks, vs, key) == IF key \in DOMAIN vs THEN ks ELSE Append(ks, key)

\* o.values[key] = value
SetValue(vs, key, value) == (key :> value) @@ vs

\* Delete that fills the hole with the last key instead of shifting.
DeleteKeySwapLast(ks, key) ==
    IF \E i \in 1..Len(ks) : ks[i] = key
    THEN LET i == CHOOSE j \in 1..Len(ks) : ks[j] = key
         IN  SubSeq([ks EXCEPT ![i] = ks[Len(ks)]], 1, Len(ks) - 1)
    ELSE ks

\* o.keys after the loop of Delete: the first slot holding key is cut out.
DeleteKey(ks, key) ==
    IF \E i \in 1..Len(ks) : ks[i] = key
    THEN LET i == CHOOSE j \in 1..Len(ks) : ks[j] = key /\ \A h \in 1..(j - 1) : ks[h] # key
         IN  SubSeq(ks, 1, i - 1) \o SubSeq(ks, i + 1, Len(ks))
    ELSE ks

\* A Delete that leaves the entry in the map.
DeleteValueKept(vs, key) == vs

\* delete(o.values, key)
DeleteValue(vs, key) == [k \in DOMAIN vs \ {key} |-> vs[k]]

\* The array behind o.keys after Delete. Keys() returns o.keys itself, so a
\* slice the caller got from Keys() shares this array: arr is the array as far
\* as that slice reaches and o.keys is its first m slots. append(o.keys[:i],
\* o.keys[i+1:]...) moves the slots behind the deleted one to the left inside
\* the array; the slots from the m-th on keep what they hold.
DeleteInPlace(arr, m, key) ==
    LET ks == DeleteKey(SubSeq(arr, 1, m), key)
    IN  ks \o SubSeq(arr, Len(ks) + 1, Len(arr))

RECURSIVE RangeDelete(_, _, _, _, _), DeleteAllOf(_, _, _, _)

\* for _, k := range o.Keys() { o.Delete(k) }, from the idx-th round on: the
\* loop reads the slots of the array the container goes on writing to.
RangeDelete(arr, m, vs, idx, visited) ==
    IF idx > Len(arr)
    THEN [keys |-> SubSeq(arr, 1, m), values |-> vs, visited |-> visited]
    ELSE LET k == arr[idx]
         IN  IF k \notin DOMAIN vs
             THEN RangeDelete(arr, m, vs, idx + 1, Append(visited, k))
             ELSE RangeDelete(DeleteInPlace(arr, m, k),
                              Len(DeleteKey(SubSeq(arr, 1, m), k)),
                              DeleteValue(vs, k), idx + 1, Append(visited, k))

\* The same loop over a copy of the slice Keys() returned.
DeleteAllOf(copy, ks, vs, idx) ==
    IF idx > Len(copy) THEN [keys |-> ks, values |-> vs, visited |-> copy]
    ELSE IF copy[idx] \notin DOMAIN vs THEN DeleteAllOf(copy, ks, vs, idx + 1)
    ELSE DeleteAllOf(copy, DeleteKey(ks, copy[idx]), DeleteValue(vs, copy[idx]), idx + 1)

\* The pairs Sort builds: one per key, in key order.
PairsOf(ks, vs) == [i \in 1..Len(ks) |-> [key |-> ks[i], value |-> ValueAt(vs, ks[i])]]

\* The comparators the callers pass. valueDesc is the one of TestOrderedMap_Sort
\* ("descending numeric value"; a value that is no number counts as 0), keyAsc
\* compares the keys, always and never are not consistent orders.
LessFuncs == {"valueDesc", "keyAsc", "always", "never"}

Rank(v) == IF v.t = "num" THEN v.n ELSE 0

LessFunc(less, a, b) ==
    CASE less = "valueDesc" -> Rank(a.value) > Rank(b.value)
      [] less = "keyAsc" -> StringLess(a.key, b.key)
      [] less = "always" -> TRUE
      [] OTHER -> FALSE

\* A Swap that writes one of the two slots only.
SwapOverwrite(pairs, i, j) == [pairs EXCEPT ![i] = pairs[j]]

\* func (a ByPair[T]) Swap(i, j int)
Swap(pairs, i, j) == [pairs EXCEPT ![i] = pairs[j], ![j] = pairs[i]]

\* A Less that hands the two pairs to the comparator the other way round.
LessSwapped(pairs, less, i, j) == LessFunc(less, pairs[j], pairs[i])

\* func (a ByPair[T]) Less(i, j int) bool
Less(pairs, less, i, j) == LessFunc(less, pairs[i], pairs[j])

RECURSIVE InsertOne(_, _, _), InsertionSort(_, _, _), ShellPass(_, _, _)

\* An insertion that also passes the elements it is not Less than.
RECURSIVE InsertOneNonStrict(_, _, _)
InsertOneNonStrict(pairs, less, j) ==
    IF j > 1 /\ ~Less(pairs, less, j - 1, j)
    THEN InsertOneNonStrict(Swap(pairs, j, j - 1), less, j - 1)
    ELSE pairs

\* sort's insertionSort, inner loop: the element at j sinks while it is Less
\* than its left neighbour.
InsertOne(pairs, less, j) ==
    IF j > 1 /\ Less(pairs, less, j, j - 1)
    THEN InsertOne(Swap(pairs, j, j - 1), less, j - 1)
    ELSE pairs

\* sort's insertionSort, outer loop from the i-th element on.
InsertionSort(pairs, less, i) ==
    IF i > Len(pairs) THEN pairs
    ELSE InsertionSort(InsertOne(pairs, less, i), less, i + 1)

\* The pass with gap 6 that the quickSort of Go 1.18 makes over a slice of at
\* most 12 elements before its insertion sort.
ShellPass(pairs, less, i) ==
    IF i > Len(pairs) THEN pairs
    ELSE ShellPass(IF Less(pairs, less, i, i - 6) THEN Swap(pairs, i, i - 6) ELSE pairs,
                   less, i + 1)

\* sort.Sort on at most 12 elements. Go 1.18, the first toolchain that builds
\* this generic code, makes the gap-6 pass and then an insertion sort; Go 1.19
\* and later (pdqsort) make the insertion sort alone. gapPass says which.
SortSort(pairs, less, gapPass) ==
    InsertionSort(IF gapPass THEN ShellPass(pairs, less, 7) ELSE pairs, less, 2)

\* The toolchains differ only where the gap-6 pass has something to compare:
\* on more than 6 elements.
GapPassChoices(n) == IF n > 6 THEN BOOLEAN ELSE {FALSE}

\* The loop that writes the sorted pairs' keys back into o.keys.
KeysOfPairs(pairs) == [i \in 1..Len(pairs) |-> pairs[i].key]

\* func New[T any]() *OrderedMap[T]
Init ==
    /\ keys = <<>>
    /\ values = EmptyMap
    /\ escapeHTML = TRUE
    /\ last = Op("New", "", "")
    /\ input = <<>>
    /\ res = NoResult

\* func (o *OrderedMap[T]) SetEscapeHTML(on bool)
SetEscapeHTML(on) ==
    /\ escapeHTML' = on
    /\ last' = Op("SetEscapeHTML", "", "")
    /\ input' = <<>>
    /\ res' = NoResult
    /\ UNCHANGED <<keys, values>>

\* func (o *OrderedMap[T]) Set(key string, value T)
Set(key, value) ==
    /\ keys' = SetKeys(keys, values, key)
    /\ values' = SetValue(values, key, value)
    /\ last' = Op("Set", key, value)
    /\ input' = <<>>
    /\ res' = NoResult
    /\ UNCHANGED escapeHTML

\* func (o *OrderedMap[T]) Delete(key string)
Delete(key) ==
    /\ IF key \notin DOMAIN values
       THEN UNCHANGED <<keys, values>>
       ELSE /\ keys' = DeleteKey(keys, key)
            /\ values' = DeleteValue(values, key)
    /\ last' = Op("Delete", key, "")
    /\ input' = <<>>
    /\ res' = NoResult
    /\ UNCHANGED escapeHTML

\* func (o *OrderedMap[T]) SortKeys(sortFunc func(keys []string)), called
\* with sort.Strings as in TestOrderedMap_SortKeys.
SortKeys(gapPass) ==
    /\ keys' = KeysOfPairs(SortSort(PairsOf(keys, values), "keyAsc", gapPass))
    /\ last' = Op("SortKeys", "", "Strings")
    /\ input' = <<>>
    /\ res' = NoResult
    /\ UNCHANGED <<values, escapeHTML>>

\* func (o *OrderedMap[T]) Sort(lessFunc func(a *Pair[T], b *Pair[T]) bool)
Sort(less, gapPass) ==
    /\ keys' = KeysOfPairs(SortSort(PairsOf(keys, values), less, gapPass))
    /\ last' = Op("Sort", "", less)
    /\ input' = <<>>
    /\ res' = NoResult
    /\ UNCHANGED <<values, escapeHTML>>

\* A caller that deletes every key it meets in the slice Keys() returned;
\* res holds the keys the loop visited and the keys there were.
DeleteEach ==
    LET r == RangeDelete(keys, Len(keys), values, 1, <<>>)
    IN  /\ keys' = r.keys
        /\ values' = r.values
        /\ res' = [err |-> FALSE, visited |-> r.visited, before |-> keys]
        /\ last' = Op("DeleteEach", "", "")
        /\ input' = <<>>
        /\ UNCHANGED escapeHTML

\* A caller that copies the slice Keys() returned and deletes every key of
\* the copy.
DeleteEachOfCopy ==
    LET r == DeleteAllOf(keys, keys, values, 1)
    IN  /\ keys' = r.keys
        /\ values' = r.values
        /\ res' = [err |-> FALSE, visited |-> r.visited, before |-> keys]
        /\ last' = Op("DeleteEachOfCopy", "", "")
        /\ input' = <<>>
        /\ UNCHANGED escapeHTML

\* MarshalJSON called on the container: the bytes and the error it returns.
Marshal ==
    /\ res' = MarshalJSON(Self)
    /\ last' = Op("MarshalJSON", "", "")
    /\ input' = <<>>
    /\ UNCHANGED <<keys, values, escapeHTML>>

(***************************************************************************)
(* The standard decoder: json.Unmarshal(b, &o.values) with T = interface{}.*)
(***************************************************************************)
\* The text without its insignificant white space.
NonSpace(b) == SelectSeq(b, LAMBDA a : a # "\n")

IsString(a) == \E s \in StringSet : a = JSONString(s, TRUE) \/ a = JSONString(s, FALSE)

\* The string a literal stands for, escaped or not.
Unquote(a) == CHOOSE s \in StringSet : a = JSONString(s, TRUE) \/ a = JSONString(s, FALSE)

IsNumber(a) == \E n \in NumberSet : a = NumberText(n)

ParseNumber(a) == CHOOSE n \in NumberSet : a = NumberText(n)

ParseError == [ok |-> FALSE, v |-> Null, next |-> 0]

RECURSIVE ParseValue(_, _), ParseMembers(_, _, _), ParseElements(_, _, _)

\* The JSON value that starts at atom i of t, as encoding/json decodes it into
\* an interface{}: a number, a string, null, a []interface{} or a
\* map[string]interface{}; next is the atom after it.
ParseValue(t, i) ==
    IF i > Len(t) THEN ParseError
    ELSE CASE t[i] = "{" ->
                 IF i < Len(t) /\ t[i + 1] = "}"
                 THEN [ok |-> TRUE, v |-> GoMap(EmptyMap), next |-> i + 2]
                 ELSE ParseMembers(t, i + 1, EmptyMap)
           [] t[i] = "[" ->
                 IF i < Len(t) /\ t[i + 1] = "]"
                 THEN [ok |-> TRUE, v |-> Arr(<<>>), next |-> i + 2]
                 ELSE ParseElements(t, i + 1, <<>>)
           [] t[i] = "null" -> [ok |-> TRUE, v |-> Null, next |-> i + 1]
           [] IsNumber(t[i]) -> [ok |-> TRUE, v |-> Num(ParseNumber(t[i])), next |-> i + 1]
           [] IsString(t[i]) -> [ok |-> TRUE, v |-> Str(Unquote(t[i])), next |-> i + 1]
           [] OTHER -> ParseError

\* A decoder that keeps the first value of a repeated key.
RECURSIVE ParseMembersFirstWins(_, _, _)
ParseMembersFirstWins(t, i, m) ==
    IF i + 1 > Len(t) \/ ~IsString(t[i]) \/ t[i + 1] # ":" THEN ParseError
    ELSE LET r == ParseValue(t, i + 2)
             m2 == m @@ (Unquote(t[i]) :> r.v)
         IN  IF ~r.ok \/ r.next > Len(t) THEN ParseError
             ELSE IF t[r.next] = "}" THEN [ok |-> TRUE, v |-> GoMap(m2), next |-> r.next + 1]
             ELSE IF t[r.next] = "," THEN ParseMembersFirstWins(t, r.next + 1, m2)
             ELSE ParseError

\* The members of an object from atom i on (a key is expected there); m holds
\* the members read so far. A repeated key overwrites: the last value wins.
ParseMembers(t, i, m) ==
    IF i + 1 > Len(t) \/ ~IsString(t[i]) \/ t[i + 1] # ":" THEN ParseError
    ELSE LET r == ParseValue(t, i + 2)
             m2 == (Unquote(t[i]) :> r.v) @@ m
         IN  IF ~r.ok \/ r.next > Len(t) THEN ParseError
             ELSE IF t[r.next] = "}" THEN [ok |-> TRUE, v |-> GoMap(m2), next |-> r.next + 1]
             ELSE IF t[r.next] = "," THEN ParseMembers(t, r.next + 1, m2)
             ELSE ParseError

\* The elements of an array from atom i on (a value is expected there).
ParseElements(t, i, items) ==
    LET r == ParseValue(t, i)
    IN  IF ~r.ok \/ r.next > Len(t) THEN ParseError
        ELSE IF t[r.next] = "]"
             THEN [ok |-> TRUE, v |-> Arr(Append(items, r.v)), next |-> r.next + 1]
        ELSE IF t[r.next] = "," THEN ParseElements(t, r.next + 1, Append(items, r.v))
        ELSE ParseError

\* json.Unmarshal(b, &o.values): the text must be one valid JSON value. An
\* object is decoded INTO the map the field holds: its members are stored, and
\* the entries the map held under other keys stay. null makes the map nil. Any
\* other value is a type error and leaves the map as it was.
StdUnmarshal(b, vs) ==
    LET t == NonSpace(b)
        r == ParseValue(t, 1)
    IN  IF ~r.ok \/ r.next # Len(t) + 1 THEN [err |-> TRUE, values |-> vs]
        ELSE IF r.v.t = "map" THEN [err |-> FALSE, values |-> r.v.m @@ vs]
        ELSE IF r.v.t = "null" THEN [err |-> FALSE, values |-> EmptyMap]
        ELSE [err |-> TRUE, values |-> vs]

(***************************************************************************)
(* The order pass: decodeOrderedMap and decodeSlice over dec.Token().      *)
(***************************************************************************)
\* The tokens json.Decoder.Token returns for a valid text: the delimiters and
\* the literals; it consumes the commas, the colons and the white space.
Tokens(b) == SelectSeq(b, LAMBDA a : a \notin {"\n", ",", ":"})

\* The duplicate-key branch without its copy: the key is written in the last
\* slot and its earlier slot stays.
MoveToEndNoShift(ks, key) == [ks EXCEPT ![Len(ks)] = key]

\* The branch "duplicate key" of decodeOrderedMap: the slots after the first
\* one holding key move one place left, and key is written in the last slot.
MoveToEnd(ks, key) ==
    LET n == Len(ks)
        found == \E j \in 1..n : ks[j] = key
        j == CHOOSE h \in 1..n : ks[h] = key /\ \A g \in 1..(h - 1) : ks[g] # key
        shifted == IF found
                   THEN [h \in 1..n |-> IF h < j \/ h = n THEN ks[h] ELSE ks[h + 1]]
                   ELSE ks
    IN  [shifted EXCEPT ![n] = key]

\* An order pass that puts each new key in front.
PlaceKeyFront(ks, hasKey, key) == IF key \in hasKey THEN ks ELSE <<key>> \o ks

\* What the order pass does with a member's key.
PlaceKey(ks, hasKey, key) == IF key \in hasKey THEN MoveToEnd(ks, key) ELSE Append(ks, key)

RECURSIVE DecodeOrderedMap(_, _, _, _), DecodeSlice(_, _)

\* An order pass that walks a nested object with the container of the
\* enclosing object instead of one of its own.
RECURSIVE DecodeOrderedMapShared(_, _, _, _)
DecodeOrderedMapShared(toks, i, ks, hasKey) ==
    IF i > Len(toks) THEN [err |-> TRUE, next |-> i, keys |-> ks]
    ELSE IF toks[i] = "}" THEN [err |-> FALSE, next |-> i + 1, keys |-> ks]
    ELSE IF ~IsString(toks[i]) THEN [err |-> TRUE, next |-> i, keys |-> ks]
    ELSE LET key == Unquote(toks[i])
             ks2 == PlaceKey(ks, hasKey, key)
             has2 == hasKey \cup {key}
         IN  IF i + 1 > Len(toks) THEN [err |-> TRUE, next |-> i + 1, keys |-> ks2]
             ELSE IF toks[i + 1] = "{"
                  THEN LET r == DecodeOrderedMapShared(toks, i + 2, ks2, has2)
                       IN  IF r.err THEN [err |-> TRUE, next |-> r.next, keys |-> r.keys]
                           ELSE DecodeOrderedMapShared(toks, r.next, r.keys,
                                                       has2 \cup {r.keys[h] : h \in 1..Len(r.keys)})
             ELSE IF toks[i + 1] = "["
                  THEN LET r == DecodeSlice(toks, i + 2)
                       IN  IF r.err THEN [err |-> TRUE, next |-> r.next, keys |-> ks2]
                           ELSE DecodeOrderedMapShared(toks, r.next, ks2, has2)
             ELSE DecodeOrderedMapShared(toks, i + 2, ks2, has2)

\* func decodeOrderedMap(dec, o): toks[i] is the next token, ks is o.keys and
\* hasKey the keys seen. A nested object or array is walked with a container
\* or slice of its own, which is dropped.
DecodeOrderedMap(toks, i, ks, hasKey) ==
    IF i > Len(toks) THEN [err |-> TRUE, next |-> i, keys |-> ks]
    ELSE IF toks[i] = "}" THEN [err |-> FALSE, next |-> i + 1, keys |-> ks]
    ELSE IF ~IsString(toks[i]) THEN [err |-> TRUE, next |-> i, keys |-> ks]
    ELSE LET key == Unquote(toks[i])
             ks2 == PlaceKey(ks, hasKey, key)
             has2 == hasKey \cup {key}
         IN  IF i + 1 > Len(toks) THEN [err |-> TRUE, next |-> i + 1, keys |-> ks2]
             ELSE IF toks[i + 1] = "{"
                  THEN LET r == DecodeOrderedMap(toks, i + 2, <<>>, {})
                       IN  IF r.err THEN [err |-> TRUE, next |-> r.next, keys |-> ks2]
                           ELSE DecodeOrderedMap(toks, r.next, ks2, has2)
             ELSE IF toks[i + 1] = "["
                  THEN LET r == DecodeSlice(toks, i + 2)
                       IN  IF r.err THEN [err |-> TRUE, next |-> r.next, keys |-> ks2]
                           ELSE DecodeOrderedMap(toks, r.next, ks2, has2)
             ELSE DecodeOrderedMap(toks, i + 2, ks2, has2)

\* func decodeSlice(dec, s, escapeHTML)
DecodeSlice(toks, i) ==
    IF i > Len(toks) THEN [err |-> TRUE, next |-> i]
    ELSE IF toks[i] = "{"
         THEN LET r == DecodeOrderedMap(toks, i + 1, <<>>, {})
              IN  IF r.err THEN [err |-> TRUE, next |-> r.next]
                  ELSE DecodeSlice(toks, r.next)
    ELSE IF toks[i] = "["
         THEN LET r == DecodeSlice(toks, i + 1)
              IN  IF r.err THEN r ELSE DecodeSlice(toks, r.next)
    ELSE IF toks[i] = "]" THEN [err |-> FALSE, next |-> i + 1]
    ELSE DecodeSlice(toks, i + 1)

\* An UnmarshalJSON that makes the order pass before it looks at the error of
\* the standard decoder.
UnmarshalJSONOrderFirst(o, b) ==
    LET std == StdUnmarshal(b, o.values)
        pass == DecodeOrderedMap(Tokens(b), 2, <<>>, {})
    IN  [err |-> std.err \/ pass.err, keys |-> pass.keys, values |-> std.values]

\* func (o *OrderedMap[T]) UnmarshalJSON(b []byte) error, on the container o:
\* the error it returns and the fields it leaves.
UnmarshalJSON(o, b) ==
    LET std == StdUnmarshal(b, o.values)
        toks == Tokens(b)
        pass == DecodeOrderedMap(toks, 2, <<>>, {})
    IN  IF std.err THEN [err |-> TRUE, keys |-> o.keys, values |-> o.values]
        ELSE IF Len(toks) = 0 THEN [err |-> TRUE, keys |-> o.keys, values |-> std.values]
        ELSE [err |-> pass.err, keys |-> pass.keys, values |-> std.values]

\* The zero value OrderedMap[T]{}: what encoding/json allocates for a nil
\* *OrderedMap field before it calls UnmarshalJSON, and what the order pass
\* builds for a nested object. New() is not called.
ZeroValue == OM(<<>>, EmptyMap, FALSE)

\* The container New() returns.
NewContainer == OM(<<>>, EmptyMap, TRUE)

\* o.UnmarshalJSON(b), or json.Unmarshal(b, &o), on the container.
Unmarshal(b) ==
    LET r == UnmarshalJSON(Self, b)
    IN  /\ keys' = r.keys
        /\ values' = r.values
        /\ res' = [err |-> r.err]
        /\ last' = Op("UnmarshalJSON", "", "")
        /\ input' = b
        /\ UNCHANGED escapeHTML

\* json.Unmarshal of a record whose field Data is a nil *OrderedMap, as in
\* TestUnmarshalJSONStruct: the decoder allocates the container and calls its
\* UnmarshalJSON with the field's text b. The caller then holds that container.
UnmarshalField(b) ==
    LET r == UnmarshalJSON(ZeroValue, b)
    IN  /\ keys' = r.keys
        /\ values' = r.values
        /\ escapeHTML' = ZeroValue.escapeHTML
        /\ res' = [err |-> r.err]
        /\ last' = Op("UnmarshalField", "", "")
        /\ input' = b

\* Encode the container and decode the bytes into a new container, as
\* TestOrderedMap_empty_array does; res holds the new container.
RoundTrip ==
    LET enc == MarshalJSON(Self)
        dec == UnmarshalJSON(NewContainer, enc.out)
    IN  /\ res' = IF enc.err THEN [err |-> TRUE, keys |-> <<>>, values |-> EmptyMap]
                  ELSE [err |-> dec.err, keys |-> dec.keys, values |-> dec.values]
        /\ last' = Op("RoundTrip", "", "")
        /\ input' = <<>>
        /\ UNCHANGED <<keys, values, escapeHTML>>

(***************************************************************************)
(* The inputs.                                                             *)
(***************************************************************************)
\* A nested container as TestMarshalJSON builds one: its keys are not in
\* alphabetical order; a string with '<' sits in a sequence inside it, and an
\* empty sequence beside it.
Nested(esc) ==
    OM(<<"b", "a">>, ("b" :> Arr(<<Str("<"), Num(2)>>)) @@ ("a" :> Arr(<<>>)), esc)

\* The values the callers pass to Set.
SetValues == {Num(1), Str("<"), Nested(TRUE)}

\* The member values of the decoded documents: a number, an object whose
\* keys repeat and equal top-level keys, an array holding an object and an
\* array.
DocValue(n) ==
    CASE n = 1 -> <<"1">>
      [] n = 2 -> <<"{", "\n", "\"a\"", ":", "1", ",", "\"b\"", ":", "[", "]", ",",
                    "\"a\"", ":", "\"<\"", "}">>
      [] OTHER -> <<"[", "{", "\"c\"", ":", "2", "}", ",", "[", "\"x\"", "]", "]">>

RECURSIVE MembersText(_, _, _)

\* The members ks[i..] of a document; the i-th member's value is
\* DocValue(((i + shift) % 3) + 1).
MembersText(ks, shift, i) ==
    IF i > Len(ks) THEN <<>>
    ELSE (IF i > 1 THEN <<",", "\n">> ELSE <<>>)
         \o <<Quote(ks[i]), ":">> \o DocValue(((i + shift) % 3) + 1)
         \o MembersText(ks, shift, i + 1)

\* The text of the object whose top-level member keys are ks, in that order.
Document(ks, shift) == <<"{", "\n">> \o MembersText(ks, shift, 1) \o <<"}">>

KeySeqs == UNION {[1..n -> KeySet] : n \in 0..MaxMembers}

\* The document of TestUnmarshalJSONDuplicateKeys: member keys
\* a,b,c,d,b,c,d,e,e,e,a,b.
TestDocument ==
    <<"{", "\n",
      "\"a\"", ":", "[", "{", "}", ",", "[", "]", "]", ",", "\n",
      "\"b\"", ":", "{", "\"x\"", ":", "[", "1", "]", "}", ",", "\n",
      "\"c\"", ":", "\"x\"", ",", "\n",
      "\"d\"", ":", "{", "\"x\"", ":", "1", "}", ",", "\n",
      "\"b\"", ":", "[", "{", "\"x\"", ":", "[", "]", "}", "]", ",", "\n",
      "\"c\"", ":", "1", ",", "\n",
      "\"d\"", ":", "{", "\"x\"", ":", "2", "}", ",", "\n",
      "\"e\"", ":", "[", "{", "\"x\"", ":", "1", "}", "]", ",", "\n",
      "\"e\"", ":", "[", "[", "]", "]", ",", "\n",
      "\"e\"", ":", "[", "{", "\"x\"", ":", "2", "}", "]", ",", "\n",
      "\"a\"", ":", "{", "}", ",", "\n",
      "\"b\"", ":", "[", "[", "1", "]", "]", "\n", "}">>

\* The documents handed to the decoder in SpecDecode.
Documents == {Document(ks, shift) : ks \in KeySeqs, shift \in 0..2} \cup {TestDocument}

\* The documents handed to the decoder in Spec.
SampleDocuments ==
    {Document(<<>>, 0), Document(<<"a">>, 0), Document(<<"b", "a", "b">>, 1)}

\* The values handed to Set in SpecEncode: a number, a channel, and a nested
\* container that holds a channel inside a sequence.
EncodeValues == {Num(1), Chan, OM(<<"a">>, "a" :> Arr(<<Num(1), Chan>>), TRUE)}

\* The texts that end before b does: truncated input.
Prefixes(b) == {SubSeq(b, 1, n) : n \in 0..(Len(b) - 1)}

\* Texts that are not JSON: documents cut short, a string literal cut short,
\* brackets that do not match, a closing bracket too many, a comma with no
\* member behind it, a missing colon, tokens that are no JSON literals.
MalformedDocuments ==
    UNION {Prefixes(Document(ks, shift)) :
               ks \in UNION {[1..n -> KeySet] : n \in 1..(MaxMembers - 2)}, shift \in 0..2}
    \cup {<<"{", "\"a\"", ":", "1", ",", "\"b\"", ":", "\"x", "}">>,
          <<"{", "\"a\"", ":", "[", "1", "}">>,
          <<"{", "\"a\"", ":", "1", "]">>,
          <<"{", "\"b\"", ":", "2", ",", "\"a\"", ":", "{", "\"c\"", ":", "1", "]", "}">>,
          <<"{", "\"a\"", ":", "1", "}", "}">>,
          <<"{", "\"a\"", ":", "1", ",", "}">>,
          <<"{", "\"a\"", "1", "}">>,
          <<"{", "\"a\"", ":", "2", ",", "\"b\"", ":", "tru", "}">>,
          <<"{", "a", ":", "1", "}">>,
          <<"{", "\"a\"", ":", "[", "1", ",", "nul", "]", "}">>}

(***************************************************************************)
(* The specifications.                                                     *)
(***************************************************************************)
\* The container under Set, Delete, the two sorts, the flag and the encoder.
NextOps ==
    \/ \E k \in KeySet, v \in SetValues : Set(k, v)
    \/ \E k \in KeySet : Delete(k)
    \/ \E g \in GapPassChoices(Len(keys)) : SortKeys(g)
    \/ \E less \in {"valueDesc", "always"}, g \in GapPassChoices(Len(keys)) : Sort(less, g)
    \/ \E on \in BOOLEAN : SetEscapeHTML(on)
    \/ Marshal
    \/ RoundTrip

SpecOps == Init /\ [][NextOps]_vars

\* Every operation.
Next ==
    \/ \E k \in KeySet, v \in {Num(1), Nested(FALSE)} : Set(k, v)
    \/ \E k \in KeySet : Delete(k)
    \/ \E g \in GapPassChoices(Len(keys)) : SortKeys(g)
    \/ \E less \in {"valueDesc", "always"}, g \in GapPassChoices(Len(keys)) : Sort(less, g)
    \/ \E on \in BOOLEAN : SetEscapeHTML(on)
    \/ Marshal
    \/ RoundTrip
    \/ \E b \in SampleDocuments : Unmarshal(b)
    \/ \E b \in SampleDocuments : UnmarshalField(b)

Spec == Init /\ [][Next]_vars

\* The decoder on its own: a document is drawn, and decoded once, into a
\* container that holds entries already or into one the decoder allocates.
DecodeTargets == {NewContainer, OM(<<"c">>, "c" :> Str("x"), TRUE)}

InitDecode ==
    \E o \in DecodeTargets, b \in Documents :
        /\ keys = o.keys
        /\ values = o.values
        /\ escapeHTML = o.escapeHTML
        /\ last = IF o.keys = <<>> THEN Op("New", "", "") ELSE Op("Set", "c", Str("x"))
        /\ input = b
        /\ res = NoResult

\* The drawn document has not been decoded yet.
Pending == last.op \in {"New", "Set"}

DecodeInput == Pending /\ Unmarshal(input)

DecodeInputAsField == Pending /\ UnmarshalField(input)

NextDecode == DecodeInput \/ DecodeInputAsField

SpecDecode == InitDecode /\ [][NextDecode]_vars

\* The decoder on texts that are not JSON, and on some that are: one text is
\* drawn and decoded once into a container that holds entries or is new.
MalformedTargets ==
    DecodeTargets \cup {OM(<<"b", "a">>, ("b" :> Num(2)) @@ ("a" :> Num(1)), FALSE)}

InitMalformed ==
    \E o \in MalformedTargets, b \in MalformedDocuments \cup SampleDocuments :
        /\ keys = o.keys
        /\ values = o.values
        /\ escapeHTML = o.escapeHTML
        /\ last = IF o.keys = <<>> THEN Op("New", "", "")
                  ELSE Op("Set", o.keys[Len(o.keys)], o.values[o.keys[Len(o.keys)]])
        /\ input = b
        /\ res = NoResult

DecodeMalformed == Pending /\ Unmarshal(input)

NextMalformed == DecodeMalformed

SpecMalformed == InitMalformed /\ [][NextMalformed]_vars

\* The encoder on containers that hold values with no JSON encoding.
NextEncode ==
    \/ \E k \in KeySet, v \in EncodeValues : Set(k, v)
    \/ Marshal

SpecEncode == Init /\ [][NextEncode]_vars

\* The container under Set, Delete and callers that delete while they walk
\* the keys.
NextAlias ==
    \/ \E k \in KeySet, v \in {Num(1), Num(2)} : Set(k, v)
    \/ \E k \in KeySet : Delete(k)
    \/ DeleteEach
    \/ DeleteEachOfCopy

SpecAlias == Init /\ [][NextAlias]_vars

\* Sort on its own: a container of up to MaxSortKeys entries with the values
\* 1 and 2, its keys in alphabetical order or the reverse, sorted once.
SortKeySeq(n, reversed) ==
    [i \in 1..n |-> IF reversed THEN KeyUniverse[n + 1 - i] ELSE KeyUniverse[i]]

\* The container of TestOrderedMap_Sort: {b:2, a:1, c:3}.
TestSortContainer ==
    OM(<<"b", "a", "c">>, ("b" :> Num(2)) @@ ("a" :> Num(1)) @@ ("c" :> Num(3)), TRUE)

InitSort ==
    \/ \E n \in 0..MaxSortKeys, reversed \in BOOLEAN :
           \E vs \in [{KeyUniverse[i] : i \in 1..n} -> {Num(1), Num(2)}] :
               /\ keys = SortKeySeq(n, reversed)
               /\ values = vs
               /\ escapeHTML = TRUE
               /\ last = IF n = 0 THEN Op("New", "", "")
                         ELSE Op("Set", keys[n], vs[keys[n]])
               /\ input = <<>>
               /\ res = NoResult
    \/ /\ keys = TestSortContainer.keys
       /\ values = TestSortContainer.values
       /\ escapeHTML = TestSortContainer.escapeHTML
       /\ last = Op("Set", "c", Num(3))
       /\ input = <<>>
       /\ res = NoResult

SortOnce(less, gapPass) == Pending /\ Sort(less, gapPass)

NextSort == \E less \in LessFuncs, g \in GapPassChoices(Len(keys)) : SortOnce(less, g)

SpecSort == InitSort /\ [][NextSort]_vars

(***************************************************************************)
(* The properties.                                                         *)
(***************************************************************************)
Range(s) == {s[i] : i \in 1..Len(s)}

NoDuplicates(s) == \A i, j \in 1..Len(s) : i # j => s[i] # s[j]

\* The keys for which Get reports found.
FoundKeys == {k \in StringSet : Get(k).found}

RECURSIVE KeysAtDepthOne(_, _, _)

\* The member keys of the outermost object of a text without white space, in
\* the order they are written: the atoms at nesting depth 1 that a colon
\* follows.
KeysAtDepthOne(t, i, depth) ==
    IF i > Len(t) THEN <<>>
    ELSE LET d == IF t[i] \in {"{", "["} THEN depth + 1
                  ELSE IF t[i] \in {"}", "]"} THEN depth - 1 ELSE depth
         IN  (IF depth = 1 /\ i < Len(t) /\ t[i + 1] = ":" THEN <<Unquote(t[i])>> ELSE <<>>)
             \o KeysAtDepthOne(t, i + 1, d)

TopLevelKeys(b) == KeysAtDepthOne(NonSpace(b), 1, 0)

\* The keys of s, each once, in the order of their last occurrences.
LastOccurrences(s) ==
    LET lastAt == SelectSeq([i \in 1..Len(s) |-> i],
                            LAMBDA i : \A j \in (i + 1)..Len(s) : s[j] # s[i])
    IN  [i \in 1..Len(lastAt) |-> s[lastAt[i]]]

RECURSIVE Generic(_)

\* The value as plain JSON data: an ordered container becomes the unordered
\* map of its members.
Generic(v) ==
    CASE v.t = "om" -> GoMap([k \in Range(v.keys) |-> Generic(ValueAt(v.values, k))])
      [] v.t = "map" -> GoMap([k \in DOMAIN v.m |-> Generic(v.m[k])])
      [] v.t = "arr" -> Arr([i \in 1..Len(v.items) |-> Generic(v.items[i])])
      [] OTHER -> v

\* The order in which the members of an object value come out: the key
\* sequence of an ordered container, the sorted keys of a plain map.
MemberOrder(v) ==
    CASE v.t = "om" -> v.keys
      [] v.t = "map" -> SortedKeys(DOMAIN v.m)
      [] OTHER -> <<>>

MemberOf(v, k) == IF v.t = "om" THEN ValueAt(v.values, k) ELSE ValueAt(v.m, k)

RECURSIVE SameValue(_, _)

\* w is the value v, the key order of an ordered container being part of it.
SameValue(v, w) ==
    CASE v.t = "om" ->
             /\ w.t \in {"om", "map"}
             /\ MemberOrder(w) = v.keys
             /\ \A k \in Range(v.keys) : SameValue(ValueAt(v.values, k), MemberOf(w, k))
      [] v.t = "arr" ->
             /\ w.t = "arr"
             /\ Len(w.items) = Len(v.items)
             /\ \A i \in 1..Len(v.items) : SameValue(v.items[i], w.items[i])
      [] OTHER -> v = w

\* C1: in every state reached from New() by Set, Delete and Sort calls, Keys()
\* has no duplicate entry and its keys are exactly the keys Get finds.
C1_KeysMatchValues == NoDuplicates(Keys) /\ Range(Keys) = FoundKeys

C1_SortedThreeKeys ==
    /\ last.op = "Sort"
    /\ last.arg = "always"
    /\ Len(Keys) = 3
    /\ Keys # <<"a", "b", "c">>
    /\ FoundKeys = {"a", "b", "c"}

\* C2: after a successful UnmarshalJSON, into a container in any reachable
\* state, the keys of Keys(), the keys Get finds and the distinct top-level
\* member keys of the input are the same set: the previous content is replaced.
C2_DecodeReplacesContent ==
    (last.op = "UnmarshalJSON" /\ ~res.err) =>
        /\ Range(Keys) = FoundKeys
        /\ Range(Keys) = Range(TopLevelKeys(input))

\* C3: Set(k, v) with k absent appends k to Keys() and moves no other key;
\* with k present it leaves Keys() as it is; either way k then holds v, and
\* every other key holds the value it held.
C3_SetKeepsOrder ==
    [][last'.op = "Set" =>
          LET k == last'.key
          IN  /\ keys' = IF k \in DOMAIN values THEN keys ELSE Append(keys, k)
              /\ DOMAIN values' = DOMAIN values \cup {k}
              /\ values'[k] = last'.arg
              /\ \A h \in DOMAIN values \ {k} : values'[h] = values[h]]_vars

C3_ResetFirstKey ==
    /\ last.op = "Set"
    /\ Len(Keys) = 3
    /\ last.key = Keys[1]
    /\ Get(Keys[1]).value # Get(Keys[2]).value

\* C4: after Delete(k) with k present, Get(k) finds nothing, Keys() does not
\* hold k, and the other keys keep their relative order and their values;
\* Delete(k) with k absent changes neither Keys() nor any value, and nothing
\* reports an error.
C4_DeleteRemovesOneKey ==
    [][last'.op = "Delete" =>
          LET k == last'.key
          IN  /\ k \notin DOMAIN values'
              /\ keys' = SelectSeq(keys, LAMBDA h : h # k)
              /\ values' = [h \in DOMAIN values \ {k} |-> values[h]]
              /\ k \notin DOMAIN values => (keys' = keys /\ values' = values)
              /\ ~res'.err]_vars

C4_DeletedFromThree ==
    /\ last.op = "Delete"
    /\ Keys = <<"c", "a">>
    /\ ~Get("b").found
    /\ last.key = "b"

\* C5: after a decode, Keys() holds each distinct top-level member key of the
\* input once, in the order of the keys' last occurrences in the input.
C5_LastOccurrenceOrder ==
    (last.op \in {"UnmarshalJSON", "UnmarshalField"} /\ ~res.err) =>
        Keys = LastOccurrences(TopLevelKeys(input))

C5_TestDocumentDecoded ==
    /\ last.op = "UnmarshalJSON"
    /\ ~res.err
    /\ TopLevelKeys(input) = <<"a", "b", "c", "d", "b", "c", "d", "e", "e", "e", "a", "b">>
    /\ Keys = <<"c", "d", "e", "a", "b">>

\* C6, as the spec states it: decoding encode(c) into a new container gives
\* c's key sequence and, for every key, c's value, the key order of a value
\* that is an ordered container included.
C6_RoundTripSameValues ==
    last.op = "RoundTrip" =>
        /\ ~res.err
        /\ res.keys = Keys
        /\ \A k \in Range(Keys) :
              k \in DOMAIN res.values /\ SameValue(Get(k).value, res.values[k])

\* C6, amended: decoding encode(c) into a new container gives c's key
\* sequence and, for every key, c's value as plain JSON data; a value that is
\* an ordered container comes back as an unordered map of its members.
C6_RoundTripPlainValues ==
    last.op = "RoundTrip" =>
        /\ ~res.err
        /\ res.keys = Keys
        /\ DOMAIN res.values = Range(Keys)
        /\ \A k \in Range(Keys) : res.values[k] = Generic(Get(k).value)

C6_RoundTripOfMixedValues ==
    /\ last.op = "RoundTrip"
    /\ Keys = <<"c", "a", "b">>
    /\ Get("c").value.t = "om"
    /\ Get("a").value.t = "str"
    /\ Get("b").value.t = "num"
    /\ res.keys = Keys

\* C7: the members of the object MarshalJSON writes are the keys of Keys(), in
\* that order, one member per key, each with the value Get returns for it.
C7_EncodeFollowsKeys ==
    last.op = "MarshalJSON" =>
        /\ ~res.err
        /\ TopLevelKeys(res.out) = Keys
        /\ LET p == ParseValue(NonSpace(res.out), 1)
           IN  /\ p.ok
               /\ p.v.t = "map"
               /\ \A k \in Range(Keys) : p.v.m[k] = Generic(Get(k).value)

C7_EncodedOutOfAlphabet ==
    /\ last.op = "MarshalJSON"
    /\ Keys = <<"c", "a", "b">>
    /\ TopLevelKeys(res.out) = <<"c", "a", "b">>

\* C8: the escapeHTML flag of the container MarshalJSON is called on decides
\* the escaping of the whole output: off, no '<' is written escaped, on, none
\* is written literally, whatever the flag of a nested container.
C8_OuterFlagDecidesEscaping ==
    last.op = "MarshalJSON" =>
        \A i \in 1..Len(res.out) :
            res.out[i] # (IF escapeHTML THEN "\"<\"" ELSE "\"\\u003c\"")

\* C9: a container that comes to exist, from New() or allocated by the
\* decoder, has escapeHTML on, and only SetEscapeHTML switches it off.
C9_EscapeOnUntilSwitchedOff ==
    [][/\ last'.op \in {"New", "UnmarshalField"} => escapeHTML'
       /\ (escapeHTML /\ ~escapeHTML') => last'.op = "SetEscapeHTML"]_vars

\* The entry Sort builds for a key.
Entry(k) == [key |-> k, value |-> ValueAt(values, k)]

Position(ks, k) == CHOOSE i \in 1..Len(ks) : ks[i] = k

\* Every two entries of which the comparator puts neither before the other
\* are in keys' in the order they have in keys.
KeepsTies(less) ==
    \A a, b \in Range(keys) :
        (/\ a # b
         /\ ~LessFunc(less, Entry(a), Entry(b))
         /\ ~LessFunc(less, Entry(b), Entry(a))
         /\ Position(keys, a) < Position(keys, b))
        => Position(keys', a) < Position(keys', b)

\* C10, as the spec states it: Sort is a stable sort, entries of which the
\* comparator puts neither before the other keep their relative order.
C10_SortIsStable == [][last'.op = "Sort" => KeepsTies(last'.arg)]_vars

\* C10, amended: Sort keeps the relative order of such entries in a container
\* of fewer than 7 entries.
C10_SortKeepsTiesBelowSeven ==
    [][(last'.op = "Sort" /\ Len(keys) < 7) => KeepsTies(last'.arg)]_vars

C10_SortedSixWithTies ==
    /\ last.op = "Sort"
    /\ last.arg = "valueDesc"
    /\ Keys = <<"b", "d", "e", "a", "c", "f">>
    /\ \A k \in {"b", "d", "e"} : Get(k).value = Num(2)
    /\ \A k \in {"a", "c", "f"} : Get(k).value = Num(1)

\* The comparators that are strict weak orders over the entries.
StrictWeakOrders == {"valueDesc", "keyAsc", "never"}

\* No entry of keys' stands behind an entry the comparator puts it before.
OrderedBy(less) ==
    \A i, j \in 1..Len(keys') :
        i < j => ~LessFunc(less, Entry(keys'[j]), Entry(keys'[i]))

\* C11: after Sort(less) with less a strict weak order, Keys() is ordered by
\* less: for all positions i < j, less(entry at j, entry at i) is false.
C11_SortOrdersByLess ==
    [][(last'.op = "Sort" /\ last'.arg \in StrictWeakOrders) => OrderedBy(last'.arg)]_vars

C11_TestContainerSorted ==
    /\ last.op = "Sort"
    /\ last.arg = "valueDesc"
    /\ Keys = <<"c", "b", "a">>
    /\ Get("c").value = Num(3)
    /\ Get("b").value = Num(2)
    /\ Get("a").value = Num(1)

\* How often k occurs in s.
Count(s, k) == Cardinality({i \in 1..Len(s) : s[i] = k})

\* C12: for any comparator, consistent or not, Keys() after Sort is a
\* permutation of Keys() before it, and every key holds the value it held.
C12_SortPermutesKeys ==
    [][last'.op = "Sort" =>
          /\ Len(keys') = Len(keys)
          /\ \A k \in StringSet : Count(keys', k) = Count(keys, k)
          /\ values' = values]_vars

C12_SortedByInconsistentOrder ==
    /\ last.op = "Sort"
    /\ last.arg = "always"
    /\ Keys = <<"g", "f", "e", "d", "c", "b", "a">>
    /\ FoundKeys = Range(Keys)

\* C13: decoding a text that is not JSON (cut short, brackets that do not
\* match, a token that is no literal) returns an error and leaves the key
\* sequence and the value mapping as they were before the call.
C13_MalformedInputChangesNothing ==
    [][(last'.op = "UnmarshalJSON" /\ input' \in MalformedDocuments) =>
          /\ res'.err
          /\ keys' = keys
          /\ values' = values]_vars

C13_TruncatedAfterKnownKey ==
    /\ last.op = "UnmarshalJSON"
    /\ input \in MalformedDocuments
    /\ Len(input) > 10
    /\ input[3] = "\"a\""
    /\ input[5] # "1"
    /\ res.err
    /\ Keys = <<"b", "a">>
    /\ Get("a").value = Num(1)

RECURSIVE HoldsUnsupported(_)

\* The value is, or holds at some depth, a value with no JSON encoding.
HoldsUnsupported(v) ==
    CASE v.t = "chan" -> TRUE
      [] v.t = "arr" -> \E i \in 1..Len(v.items) : HoldsUnsupported(v.items[i])
      [] v.t = "om" -> \E k \in Range(v.keys) : HoldsUnsupported(ValueAt(v.values, k))
      [] v.t = "map" -> \E k \in DOMAIN v.m : HoldsUnsupported(v.m[k])
      [] OTHER -> FALSE

\* C14: when the value of some key cannot be encoded, MarshalJSON returns the
\* error with no bytes at all, wherever the key stands in Keys(), and the
\* container is as it was.
C14_FailedEncodeReturnsNoBytes ==
    [][(/\ last'.op = "MarshalJSON"
        /\ \E k \in Range(keys) : HoldsUnsupported(ValueAt(values, k))) =>
          /\ res'.err
          /\ res'.out = <<>>
          /\ keys' = keys
          /\ values' = values
          /\ escapeHTML' = escapeHTML]_vars

C14_LastKeyNotEncodable ==
    /\ last.op = "MarshalJSON"
    /\ Keys = <<"a", "b", "c">>
    /\ Get("a").value = Num(1)
    /\ Get("b").value = Num(1)
    /\ Get("c").value.t = "om"
    /\ res.err
    /\ res.out = <<>>

RECURSIVE KeyPositionsAtDepthOne(_, _, _)

\* Where the member keys of the outermost object stand in a text without
\* white space.
KeyPositionsAtDepthOne(t, i, depth) ==
    IF i > Len(t) THEN <<>>
    ELSE LET d == IF t[i] \in {"{", "["} THEN depth + 1
                  ELSE IF t[i] \in {"}", "]"} THEN depth - 1 ELSE depth
         IN  (IF depth = 1 /\ i < Len(t) /\ t[i + 1] = ":" THEN <<i>> ELSE <<>>)
             \o KeyPositionsAtDepthOne(t, i + 1, d)

\* The value written behind the last top-level occurrence of the key k in b.
ValueOfLastOccurrence(b, k) ==
    LET t == NonSpace(b)
        ps == KeyPositionsAtDepthOne(t, 1, 0)
        at == CHOOSE i \in Range(ps) :
                  /\ Unquote(t[i]) = k
                  /\ \A j \in Range(ps) : Unquote(t[j]) = k => j <= i
    IN  ParseValue(t, at + 2).v

\* C15: after a decode, Get(k) returns, for every top-level member key k of
\* the input, the value of k's last occurrence.
C15_LastValueWins ==
    (last.op \in {"UnmarshalJSON", "UnmarshalField"} /\ ~res.err) =>
        \A k \in Range(TopLevelKeys(input)) :
            Get(k).found /\ Get(k).value = ValueOfLastOccurrence(input, k)

C15_TestDocumentValues ==
    /\ last.op = "UnmarshalField"
    /\ ~res.err
    /\ Len(TopLevelKeys(input)) = 12
    /\ Get("c").value = Num(1)
    /\ Get("d").value = GoMap("x" :> Num(2))
    /\ Get("a").value = GoMap(EmptyMap)
    /\ Get("b").value = Arr(<<Arr(<<Num(1)>>)>>)

\* C16: MarshalJSON of a container with no keys, new or emptied by Delete,
\* returns exactly the text {}, and decoding that text into a new container
\* gives an empty key sequence and an empty value mapping.
C16_EmptyContainerIsEmptyObject ==
    /\ (last.op = "MarshalJSON" /\ Keys = <<>>) =>
           (~res.err /\ res.out = <<"{", "}">>)
    /\ (last.op = "RoundTrip" /\ Keys = <<>>) =>
           (~res.err /\ res.keys = <<>> /\ res.values = EmptyMap)

C16_EmptyContainerEncoded ==
    /\ last.op = "MarshalJSON"
    /\ Keys = <<>>
    /\ FoundKeys = {}
    /\ ~escapeHTML
    /\ res.out = <<"{", "}">>

\* How many brackets are open in front of the i-th atom of t.
DepthBefore(t, i) ==
    Cardinality({j \in 1..(i - 1) : t[j] \in {"{", "["}})
        - Cardinality({j \in 1..(i - 1) : t[j] \in {"}", "]"}})

\* The text is one object whose member keys are ks, in that order, with one
\* comma between two members and none behind the last.
IsObjectOf(t, ks) ==
    LET p == ParseValue(t, 1)
    IN  /\ Len(t) >= 2
        /\ t[1] = "{"
        /\ t[Len(t)] = "}"
        /\ p.ok
        /\ p.next = Len(t) + 1
        /\ KeysAtDepthOne(t, 1, 0) = ks

\* C18, as the spec states it: MarshalJSON returns '{', the encoded keys and
\* values with ':' and ',' between them, '}', and no other byte: no white
\* space, no line break.
C18_NoBytesBetweenParts ==
    (last.op = "MarshalJSON" /\ ~res.err) =>
        /\ \A i \in 1..Len(res.out) : res.out[i] # "\n"
        /\ IsObjectOf(res.out, Keys)

\* C18, amended: the bytes are '{', the encoded keys and values with ':' and
\* ',' between them, '}', and one line break behind every encoded key and
\* behind every encoded value of the container, and nowhere else.
C18_LineBreakAfterKeysAndValues ==
    (last.op = "MarshalJSON" /\ ~res.err) =>
        LET out == res.out
            n == Len(out)
        IN  /\ IsObjectOf(NonSpace(out), Keys)
            /\ \A i \in 1..n :
                   out[i] = "\n" <=>
                       /\ 1 < i
                       /\ i < n
                       /\ out[i + 1] \in {":", ",", "}"}
                       /\ DepthBefore(out, i + 1) = 1

C18_TwoEntriesEncoded ==
    /\ last.op = "MarshalJSON"
    /\ Keys = <<"b", "a">>
    /\ res.out = <<"{", "\"b\"", "\n", ":", "1", "\n", ",",
                   "\"a\"", "\n", ":", "\"\\u003c\"", "\n", "}">>

RECURSIVE FlatMembers(_, _)

\* The members ks[i..], each with the value 1.
FlatMembers(ks, i) ==
    IF i > Len(ks) THEN <<>>
    ELSE (IF i > 1 THEN <<",">> ELSE <<>>) \o <<Quote(ks[i]), ":", "1">>
         \o FlatMembers(ks, i + 1)

\* The object with the member keys ks and no nested value.
FlatDocument(ks) == <<"{">> \o FlatMembers(ks, 1) \o <<"}">>

\* C17: the key order after a decode is the one the same top-level member
\* keys give with no nested value behind them, it holds top-level keys only,
\* and the order pass ends right behind the closing brace of the input.
C17_NestedKeysLeaveOrderAlone ==
    (last.op \in {"UnmarshalJSON", "UnmarshalField"} /\ ~res.err) =>
        LET top == TopLevelKeys(input)
            toks == Tokens(input)
            pass == DecodeOrderedMap(toks, 2, <<>>, {})
        IN  /\ Keys = UnmarshalJSON(NewContainer, FlatDocument(top)).keys
            /\ Range(Keys) \subseteq Range(top)
            /\ ~pass.err
            /\ pass.next = Len(toks) + 1

C17_NestedKeysRepeatTopLevel ==
    /\ last.op = "UnmarshalJSON"
    /\ ~res.err
    /\ TopLevelKeys(input) = <<"c", "b">>
    /\ Keys = <<"c", "b">>
    /\ Get("c").value = GoMap(("a" :> Str("<")) @@ ("b" :> Arr(<<>>)))
    /\ Get("b").value = Arr(<<GoMap("c" :> Num(2)), Arr(<<Str("x")>>)>>)

\* C19, as stated: a loop over the sequence Keys() returned that calls Delete
\* on each key it visits visits every key that was present once and leaves
\* the container empty.
C19_RangeDeleteVisitsEveryKey ==
    last.op = "DeleteEach" =>
        /\ res.visited = res.before
        /\ Keys = <<>>
        /\ FoundKeys = {}

\* C19, amended: the same loop over a copy of the sequence Keys() returned
\* visits every key that was present once and leaves the container empty.
C19_CopyDeleteVisitsEveryKey ==
    last.op = "DeleteEachOfCopy" =>
        /\ res.visited = res.before
        /\ NoDuplicates(res.visited)
        /\ Keys = <<>>
        /\ FoundKeys = {}

C19_ThreeKeysDeletedByCopy ==
    /\ last.op = "DeleteEachOfCopy"
    /\ res.before = <<"b", "c", "a">>
    /\ Keys = <<>>

====
